---- MODULE Spec2Model ----
(***************************************************************************)
(* Model of the subscription and scheduled-notification logic of           *)
(* uplift-your-morning:                                                    *)
(*   apps/subscriptions/models.py          Subscriber, ScheduledNotification*)
(*   apps/subscriptions/management/commands/send_daily_devotions.py        *)
(*   apps/subscriptions/views.py, api_views.py   subscribe / unsubscribe   *)
(*   apps/subscriptions/serializers.py, whatsapp.py                        *)
(*                                                                         *)
(* Time is discrete: an instant is day * SlotsPerDay + slot.  Strings that *)
(* the code normalises are sequences of one-character strings.  A handler  *)
(* (one command invocation, one HTTP request) is one action.               *)
(***************************************************************************)
EXTENDS Integers, Sequences, FiniteSets, TLC

VARIABLES
    now,            \* current instant (timezone.now())
    devotions,      \* publish dates that have a published Devotion
    config,         \* gateway settings: [sms |-> FASTR_API_KEY set, whatsapp |-> Twilio keys set]
    subscribers,    \* the Subscriber table, a sequence of rows (row id = index)
    notifications,  \* the ScheduledNotification table, id -> row
    outbox,         \* the send attempts made by the handler that just ran, in order
    last,           \* what the handler that just ran was and what it answered
    site_settings,  \* the SiteSettings table, pk -> row
    bookings,       \* the CounselingBooking table, a sequence of rows
    runs            \* the command invocations in progress, each with the rows it loaded

vars == <<now, devotions, config, subscribers, notifications, outbox, last,
          site_settings, bookings, runs>>

\* the tables of apps.pages, empty
NoPages == site_settings = <<>> /\ bookings = <<>>

\* no command invocation is under way
NoRuns == runs = <<>>

-----------------------------------------------------------------------------
(* Bounds of the model *)

NumSubs == 4        \* rows of the Subscriber table in the dispatch specifications
NumNotifs == 2      \* rows of the ScheduledNotification table
MaxDay == 1         \* days 0..MaxDay
SlotsPerDay == 2    \* instants per day

Days == 0..MaxDay
Slots == 0..(SlotsPerDay - 1)
MaxTime == (MaxDay + 1) * SlotsPerDay - 1
NotifIds == 1..NumNotifs

-----------------------------------------------------------------------------
(* Values *)

CHANNEL_EMAIL == "email"
CHANNEL_SMS == "sms"
CHANNEL_WHATSAPP == "whatsapp"
CHANNEL_CHOICES == <<CHANNEL_EMAIL, CHANNEL_SMS, CHANNEL_WHATSAPP>>
ChannelSet == {CHANNEL_EMAIL, CHANNEL_SMS, CHANNEL_WHATSAPP}

STATUS_SCHEDULED == "scheduled"
STATUS_PAUSED == "paused"
STATUS_SENT == "sent"
STATUS_CANCELLED == "cancelled"
STATUS_CHOICES == {STATUS_SCHEDULED, STATUS_PAUSED, STATUS_SENT, STATUS_CANCELLED}

None == <<"None">>      \* a NULL column (no input string equals it)
NoDevotion == -1        \* notification.devotion is NULL / no Devotion found
NoTime == -1            \* sent_at is NULL
DAILY == 0              \* source tag of the regular daily devotion send

Digits == <<"0", "1", "2", "3", "4", "5", "6", "7", "8", "9">>

RECURSIVE SortedSeq(_)
SortedSeq(S) ==
    IF S = {} THEN <<>>
    ELSE LET m == CHOOSE x \in S : \A y \in S : x <= y
         IN  <<m>> \o SortedSeq(S \ {m})

RECURSIVE Flatten(_)
Flatten(ss) == IF ss = <<>> THEN <<>> ELSE Head(ss) \o Flatten(Tail(ss))

Range(f) == {f[i] : i \in DOMAIN f}

-----------------------------------------------------------------------------
(* ScheduledNotification, models.py *)

\* timezone.make_aware(datetime.combine(scheduled_date, scheduled_time))
scheduled_datetime(n) == n.scheduled_date * SlotsPerDay + n.scheduled_time

DateOf(t) == t \div SlotsPerDay

is_due(n, t) ==
    IF n.is_paused \/ n.status # STATUS_SCHEDULED THEN FALSE
    ELSE t >= scheduled_datetime(n)

pause(n) == [n EXCEPT !.is_paused = TRUE, !.status = STATUS_PAUSED]

resume(n) == [n EXCEPT !.is_paused = FALSE, !.status = STATUS_SCHEDULED]

\* mutant: the status assignment is lost
mark_as_sent_KeepsStatus(n, t) == [n EXCEPT !.sent_at = t]

mark_as_sent(n, t) == [n EXCEPT !.status = STATUS_SENT, !.sent_at = t]

\* A row as the create form leaves it: status and counters at their defaults.
NewNotification(d, tm, dev, e, s, w, only) ==
    [ status |-> STATUS_SCHEDULED, is_paused |-> FALSE,
      scheduled_date |-> d, scheduled_time |-> tm, devotion |-> dev,
      send_to_email |-> e, send_to_sms |-> s, send_to_whatsapp |-> w,
      only_daily_devotion_subscribers |-> only,
      sent_at |-> NoTime,
      email_sent_count |-> 0, email_failed_count |-> 0,
      sms_sent_count |-> 0, sms_failed_count |-> 0,
      whatsapp_sent_count |-> 0, whatsapp_failed_count |-> 0,
      notes |-> <<>> ]

-----------------------------------------------------------------------------
(* Subscriber rows *)

NewSubscriber(c, em, ph, daily, special, active) ==
    [ channel |-> c, email |-> em, phone |-> ph, is_active |-> active,
      receive_daily_devotion |-> daily, receive_special_programs |-> special ]

ContactOf(s) == IF s.channel = CHANNEL_EMAIL THEN s.email ELSE s.phone

\* <field>__isnull=False ... .exclude(<field>='')
HasContact(s) == ContactOf(s) # None /\ ContactOf(s) # <<>>

-----------------------------------------------------------------------------
(* Outbound gateways.  Each call's fate (accepted / raised) is an input.    *)
(* A result is "sent" (gateway accepted), "failed" (the call raised) or     *)
(* "skipped" (gateway not configured: returned without calling it).         *)

send_mail(ok) == IF ok THEN "sent" ELSE "failed"

\* Command._send_sms: returns None when FASTR_API_KEY is empty, True when the
\* gateway accepted, raises otherwise.
send_sms(cfg, ok) ==
    IF ~cfg.sms THEN "skipped"
    ELSE IF ok THEN "sent" ELSE "failed"

\* send_whatsapp_message: returns None when Twilio is not configured, the
\* message SID when accepted, raises otherwise.
send_whatsapp_message(cfg, ok) ==
    IF ~cfg.whatsapp THEN "skipped"
    ELSE IF ok THEN "sent" ELSE "failed"

SendResult(c, cfg, ok) ==
    CASE c = CHANNEL_EMAIL -> send_mail(ok)
      [] c = CHANNEL_SMS -> send_sms(cfg, ok)
      [] c = CHANNEL_WHATSAPP -> send_whatsapp_message(cfg, ok)

Raised(r) == r = "failed"

EmptyTally == [sent |-> 0, failed |-> 0, log |-> <<>>]

Attempt(src, c, i, subs, r) ==
    [src |-> src, channel |-> c, sub |-> i, to |-> ContactOf(subs[i]), result |-> r]

\* mutant: no try/except around the send, the first failure ends the loop
RECURSIVE SendLoop_StopAtFailure(_, _, _, _, _, _, _)
SendLoop_StopAtFailure(src, c, recips, subs, cfg, ok, acc) ==
    IF recips = <<>> THEN acc
    ELSE LET i == Head(recips)
             r == SendResult(c, cfg, <<src, i>> \in ok)
             acc2 == [ sent   |-> acc.sent + (IF Raised(r) THEN 0 ELSE 1),
                       failed |-> acc.failed + (IF Raised(r) THEN 1 ELSE 0),
                       log    |-> Append(acc.log, Attempt(src, c, i, subs, r)) ]
         IN  IF Raised(r) THEN acc2
             ELSE SendLoop_StopAtFailure(src, c, Tail(recips), subs, cfg, ok, acc2)

\* for subscriber in <list>: try: <send>; sent += 1  except Exception: failed += 1
RECURSIVE SendLoop(_, _, _, _, _, _, _)
SendLoop(src, c, recips, subs, cfg, ok, acc) ==
    IF recips = <<>> THEN acc
    ELSE LET i == Head(recips)
             r == SendResult(c, cfg, <<src, i>> \in ok)
         IN  SendLoop(src, c, Tail(recips), subs, cfg, ok,
                 [ sent   |-> acc.sent + (IF Raised(r) THEN 0 ELSE 1),
                   failed |-> acc.failed + (IF Raised(r) THEN 1 ELSE 0),
                   log    |-> Append(acc.log, Attempt(src, c, i, subs, r)) ])

-----------------------------------------------------------------------------
(* Command._send_scheduled_notification *)

SendToFlag(n, c) ==
    CASE c = CHANNEL_EMAIL -> n.send_to_email
      [] c = CHANNEL_SMS -> n.send_to_sms
      [] c = CHANNEL_WHATSAPP -> n.send_to_whatsapp

\* mutant: the is_published / publish_date lookup always finds a devotion
SelectDevotion_AnyDate(n, devs) ==
    IF n.devotion # NoDevotion THEN n.devotion ELSE n.scheduled_date

\* notification.devotion, else the published Devotion of the scheduled date
SelectDevotion(n, devs) ==
    IF n.devotion # NoDevotion THEN n.devotion
    ELSE IF n.scheduled_date \in devs THEN n.scheduled_date
    ELSE NoDevotion

\* mutant: only_daily_devotion_subscribers is not applied
ScheduledRecipients_IgnoreOptIn(n, subs, c) ==
    IF ~SendToFlag(n, c) THEN <<>>
    ELSE SortedSeq({ i \in DOMAIN subs :
            /\ subs[i].channel = c
            /\ subs[i].is_active
            /\ HasContact(subs[i]) })

\* the three recipient querysets, as lists of row ids
ScheduledRecipients(n, subs, c) ==
    IF ~SendToFlag(n, c) THEN <<>>
    ELSE SortedSeq({ i \in DOMAIN subs :
            /\ subs[i].channel = c
            /\ subs[i].is_active
            /\ HasContact(subs[i])
            /\ (n.only_daily_devotion_subscribers => subs[i].receive_daily_devotion) })

SkippedNote == "[Skipped: No devotion found]"

send_scheduled_notification(id, n, subs, devs, cfg, ok, dry_run, t) ==
    LET devotion == SelectDevotion(n, devs)
        email_subscribers == ScheduledRecipients(n, subs, CHANNEL_EMAIL)
        sms_subscribers == ScheduledRecipients(n, subs, CHANNEL_SMS)
        whatsapp_subscribers == ScheduledRecipients(n, subs, CHANNEL_WHATSAPP)
        E == SendLoop(id, CHANNEL_EMAIL, email_subscribers, subs, cfg, ok, EmptyTally)
        S == SendLoop(id, CHANNEL_SMS, sms_subscribers, subs, cfg, ok, EmptyTally)
        W == SendLoop(id, CHANNEL_WHATSAPP, whatsapp_subscribers, subs, cfg, ok, EmptyTally)
    IN  IF devotion = NoDevotion
        THEN [ n |-> [n EXCEPT !.status = STATUS_CANCELLED,
                               !.notes = Append(@, SkippedNote)],
               log |-> <<>> ]
        ELSE IF dry_run
        THEN [ n |-> n, log |-> <<>> ]
        ELSE [ n |-> mark_as_sent(
                        [n EXCEPT !.email_sent_count = E.sent,
                                  !.email_failed_count = E.failed,
                                  !.sms_sent_count = S.sent,
                                  !.sms_failed_count = S.failed,
                                  !.whatsapp_sent_count = W.sent,
                                  !.whatsapp_failed_count = W.failed], t),
               log |-> E.log \o S.log \o W.log ]

-----------------------------------------------------------------------------
(* Command._process_scheduled_notifications *)

\* filter(status=STATUS_SCHEDULED, is_paused=False, scheduled_date__lte=now.date())
due_notifications(notifs, t) ==
    { id \in DOMAIN notifs :
        /\ notifs[id].status = STATUS_SCHEDULED
        /\ notifs[id].is_paused = FALSE
        /\ notifs[id].scheduled_date <= DateOf(t) }

\* mutant: the time-of-day check is missing, the date filter alone decides
notifications_to_send_DateOnly(notifs, t) == due_notifications(notifs, t)

\* mutant: a notification scheduled for this very instant is not yet taken
notifications_to_send_StrictlyPast(notifs, t) ==
    { id \in due_notifications(notifs, t) : t > scheduled_datetime(notifs[id]) }

\* if now >= scheduled_datetime: notifications_to_send.append(notification)
notifications_to_send(notifs, t) ==
    { id \in due_notifications(notifs, t) : t >= scheduled_datetime(notifs[id]) }

\* Meta.ordering = ['-scheduled_date', '-scheduled_time'] (ties by id)
RECURSIVE Ordered(_, _)
Ordered(notifs, S) ==
    IF S = {} THEN <<>>
    ELSE LET top == CHOOSE a \in S : \A b \in S :
                 \/ scheduled_datetime(notifs[a]) > scheduled_datetime(notifs[b])
                 \/ /\ scheduled_datetime(notifs[a]) = scheduled_datetime(notifs[b])
                    /\ a <= b
         IN  <<top>> \o Ordered(notifs, S \ {top})

-----------------------------------------------------------------------------
(* Command.handle: the regular daily devotion send *)

email_subscribers_daily(subs) ==
    SortedSeq({ i \in DOMAIN subs :
        /\ subs[i].channel = CHANNEL_EMAIL
        /\ subs[i].is_active
        /\ subs[i].receive_daily_devotion
        /\ HasContact(subs[i]) })

sms_subscribers_daily(subs) ==
    SortedSeq({ i \in DOMAIN subs :
        /\ subs[i].channel = CHANNEL_SMS
        /\ subs[i].is_active
        /\ HasContact(subs[i]) })

whatsapp_subscribers_daily(subs) ==
    SortedSeq({ i \in DOMAIN subs :
        /\ subs[i].channel = CHANNEL_WHATSAPP
        /\ subs[i].is_active
        /\ subs[i].receive_daily_devotion
        /\ HasContact(subs[i]) })

DailyRecipients(subs, c) ==
    CASE c = CHANNEL_EMAIL -> email_subscribers_daily(subs)
      [] c = CHANNEL_SMS -> sms_subscribers_daily(subs)
      [] c = CHANNEL_WHATSAPP -> whatsapp_subscribers_daily(subs)

\* mutant: the dry-run return is missing
daily_send_runs_IgnoreDryRun(subs, devs, dry_run, force, t) ==
    LET devotion == DateOf(t) \in devs
        total_subscribers == Len(email_subscribers_daily(subs))
                             + Len(sms_subscribers_daily(subs))
                             + Len(whatsapp_subscribers_daily(subs))
    IN  /\ (devotion \/ force)
        /\ total_subscribers # 0

\* TRUE when handle gets past its early returns to the sending loops
daily_send_runs(subs, devs, dry_run, force, t) ==
    LET devotion == DateOf(t) \in devs
        total_subscribers == Len(email_subscribers_daily(subs))
                             + Len(sms_subscribers_daily(subs))
                             + Len(whatsapp_subscribers_daily(subs))
    IN  /\ (devotion \/ force)
        /\ total_subscribers # 0
        /\ ~dry_run

daily_send(subs, devs, cfg, ok, dry_run, force, t) ==
    IF ~daily_send_runs(subs, devs, dry_run, force, t) THEN <<>>
    ELSE LET E == SendLoop(DAILY, CHANNEL_EMAIL, email_subscribers_daily(subs), subs, cfg, ok, EmptyTally)
             S == SendLoop(DAILY, CHANNEL_SMS, sms_subscribers_daily(subs), subs, cfg, ok, EmptyTally)
             W == SendLoop(DAILY, CHANNEL_WHATSAPP, whatsapp_subscribers_daily(subs), subs, cfg, ok, EmptyTally)
         IN  E.log \o S.log \o W.log

-----------------------------------------------------------------------------
(* The gateway calls a command invocation makes: the pairs <<source, row>>  *)
(* whose fate the environment decides.                                      *)

Configured(cfg, c) ==
    CASE c = CHANNEL_EMAIL -> TRUE
      [] c = CHANNEL_SMS -> cfg.sms
      [] c = CHANNEL_WHATSAPP -> cfg.whatsapp

GatewayCalls(notifs, subs, devs, cfg, dry_run, force, t) ==
    { <<id, i>> \in notifications_to_send(notifs, t) \X DOMAIN subs :
        /\ ~dry_run
        /\ SelectDevotion(notifs[id], devs) # NoDevotion
        /\ \E c \in ChannelSet :
              /\ Configured(cfg, c)
              /\ i \in Range(ScheduledRecipients(notifs[id], subs, c)) }
    \cup
    { <<src, i>> \in {DAILY} \X DOMAIN subs :
        /\ daily_send_runs(subs, devs, dry_run, force, t)
        /\ \E c \in ChannelSet :
              /\ Configured(cfg, c)
              /\ i \in Range(DailyRecipients(subs, c)) }

-----------------------------------------------------------------------------
(* Actions *)

Quiet(op) == [op |-> op, args |-> <<>>, resp |-> <<>>]

\* python manage.py send_daily_devotions [--dry-run] [--force]
RunCommand(dry_run, force) ==
    LET toSend == notifications_to_send(notifications, now)
        order == Ordered(notifications, toSend)
    IN  \E ok \in SUBSET GatewayCalls(notifications, subscribers, devotions, config,
                                       dry_run, force, now) :
          LET res == [ id \in toSend |->
                         send_scheduled_notification(id, notifications[id], subscribers,
                                                     devotions, config, ok, dry_run, now) ]
          IN  /\ notifications' = [ id \in NotifIds |->
                                      IF id \in toSend THEN res[id].n ELSE notifications[id] ]
              /\ outbox' = Flatten([ k \in 1..Len(order) |-> res[order[k]].log ])
                           \o daily_send(subscribers, devotions, config, ok, dry_run, force, now)
              /\ last' = [ op |-> "command",
                           args |-> [dry_run |-> dry_run],
                           resp |-> [ selected |-> toSend,
                                      daily |-> daily_send_runs(subscribers, devotions,
                                                                dry_run, force, now) ] ]
              /\ UNCHANGED <<runs, site_settings, bookings, now, devotions, config, subscribers>>

\* time passes
Tick ==
    /\ now < MaxTime
    /\ now' = now + 1
    /\ outbox' = <<>>
    /\ last' = Quiet("tick")
    /\ UNCHANGED <<runs, site_settings, bookings, devotions, config, subscribers, notifications>>

-----------------------------------------------------------------------------
(* Initial states of the dispatch specification.                            *)
(*                                                                          *)
(* Row i of the Subscriber table has the i-th channel in turn and a valid   *)
(* contact (Subscriber.save() admits no other).  Notification 1 is the row  *)
(* under study; the further rows are as the create form leaves them.  In    *)
(* the life-cycle family they are scheduled for the last instant, in the    *)
(* fan-out family they are already sent.                                    *)

ContactFor(c, i) ==
    IF c = CHANNEL_EMAIL THEN <<"u", Digits[i + 1], "@", "x", ".", "y">>
    ELSE <<"+", "2", "3", "3", "5", "5", "5", Digits[i + 1]>>

ChannelOfRow(i) == CHANNEL_CHOICES[((i - 1) % 3) + 1]

SubscriberRow(i, active, daily) ==
    LET c == ChannelOfRow(i)
    IN  NewSubscriber(c,
                      IF c = CHANNEL_EMAIL THEN ContactFor(c, i) ELSE None,
                      IF c = CHANNEL_EMAIL THEN None ELSE ContactFor(c, i),
                      daily, TRUE, active)

\* (is_active, receive_daily_devotion) of a row
Profiles == { <<TRUE, TRUE>>, <<TRUE, FALSE>>, <<FALSE, TRUE>> }

DefaultNotification == NewNotification(0, 0, NoDevotion, TRUE, TRUE, TRUE, TRUE)

\* (status, is_paused) as the views leave them, and as the admin form can set them
StatusPairs ==
    { <<STATUS_SCHEDULED, FALSE>>, <<STATUS_PAUSED, TRUE>>, <<STATUS_SENT, FALSE>>,
      <<STATUS_CANCELLED, FALSE>>, <<STATUS_SCHEDULED, TRUE>>, <<STATUS_PAUSED, FALSE>> }

\* Life cycle: any status, any schedule, with or without a linked devotion,
\* default recipient flags; an opted-in email subscriber, an sms subscriber
\* not opted in to daily devotions, the other subscribers inactive; time
\* starts at 0 and passes.
InitLifecycle ==
    /\ now = 0
    /\ devotions \in SUBSET Days
    /\ config = [sms |-> TRUE, whatsapp |-> TRUE]
    /\ subscribers = [ i \in 1..NumSubs |-> SubscriberRow(i, i <= 2, i # 2) ]
    /\ \E sp \in StatusPairs, d \in Days, tm \in Slots, dev \in {NoDevotion, 0} :
          notifications = [ id \in NotifIds |->
              IF id = 1
              THEN [ NewNotification(d, tm, dev, TRUE, TRUE, TRUE, TRUE)
                        EXCEPT !.status = sp[1], !.is_paused = sp[2] ]
              ELSE NewNotification(MaxDay, SlotsPerDay - 1, NoDevotion,
                                   TRUE, TRUE, TRUE, TRUE) ]

\* Fan-out: a due notification with any recipient flags, any gateway
\* configuration, any profile for one subscriber of each channel, the other
\* subscribers active and opted in; a devotion is published for the scheduled
\* date and none for today.
InitFanout ==
    /\ now = MaxTime
    /\ devotions = {0}
    /\ config \in [sms : BOOLEAN, whatsapp : BOOLEAN]
    /\ \E pr \in [1..3 -> Profiles] :
          subscribers = [ i \in 1..NumSubs |->
              IF i <= 3 THEN SubscriberRow(i, pr[i][1], pr[i][2])
              ELSE SubscriberRow(i, TRUE, TRUE) ]
    /\ \E e \in BOOLEAN, s \in BOOLEAN, w \in BOOLEAN, only \in BOOLEAN :
          notifications = [ id \in NotifIds |->
              IF id = 1 THEN NewNotification(0, 0, NoDevotion, e, s, w, only)
              ELSE [DefaultNotification EXCEPT !.status = STATUS_SENT] ]

Init ==
    /\ InitLifecycle \/ InitFanout
    /\ NoPages
    /\ NoRuns
    /\ outbox = <<>>
    /\ last = Quiet("init")

Next ==
    \/ \E dry_run \in BOOLEAN, force \in BOOLEAN : RunCommand(dry_run, force)
    \/ Tick

Spec == Init /\ [][Next]_vars

-----------------------------------------------------------------------------
(* Strings: str.strip, str.lower, str.replace(old, ''), str.startswith      *)

Whitespace == {" ", "\t"}

RECURSIVE lstrip(_)
lstrip(s) == IF s # <<>> /\ Head(s) \in Whitespace THEN lstrip(Tail(s)) ELSE s

RECURSIVE rstrip(_)
rstrip(s) ==
    IF s # <<>> /\ s[Len(s)] \in Whitespace THEN rstrip(SubSeq(s, 1, Len(s) - 1)) ELSE s

strip(s) == rstrip(lstrip(s))

LowerOf(ch) ==
    CASE ch = "A" -> "a"
      [] ch = "X" -> "x"
      [] ch = "Y" -> "y"
      [] OTHER -> ch

lower(s) == [ i \in 1..Len(s) |-> LowerOf(s[i]) ]

\* s.replace(old, '')
replace(s, old) == SelectSeq(s, LAMBDA ch : ch # old)

startswith(s, ch) == s # <<>> /\ Head(s) = ch

\* phone.replace(' ', '').replace('-', '').replace('(', '').replace(')', '')
normalize_phone(phone) == replace(replace(replace(replace(phone, " "), "-"), "("), ")")

\* django.core.validators.validate_email on the model's alphabet: one '@', a
\* non-empty local part, a dotted domain with non-empty labels, no whitespace
validate_email(s) ==
    LET ats == { i \in 1..Len(s) : s[i] = "@" }
    IN  /\ Cardinality(ats) = 1
        /\ \A i \in 1..Len(s) : s[i] \notin Whitespace
        /\ LET at == CHOOSE i \in ats : TRUE
               dots == { i \in (at + 1)..Len(s) : s[i] = "." }
           IN  /\ at > 1
               /\ dots # {}
               /\ \A i \in dots : i > at + 1 /\ i < Len(s) /\ (i + 1) \notin dots

-----------------------------------------------------------------------------
(* Subscriber.clean, Subscriber.save, models.py *)

Raise(row) == [error |-> TRUE, row |-> row]
Return(row) == [error |-> FALSE, row |-> row]

\* mutant: the country-code and length checks are missing
clean_NoPhoneChecks(s) ==
    IF s.channel = CHANNEL_EMAIL
    THEN IF s.email \in {None, <<>>} THEN Raise(s)
         ELSE Return([s EXCEPT !.email = strip(lower(s.email))])
    ELSE IF s.phone \in {None, <<>>} THEN Raise(s)
         ELSE Return([s EXCEPT !.phone = strip(normalize_phone(s.phone))])

clean(s) ==
    IF s.channel = CHANNEL_EMAIL
    THEN IF s.email \in {None, <<>>} THEN Raise(s)
         ELSE Return([s EXCEPT !.email = strip(lower(s.email))])
    ELSE IF s.phone \in {None, <<>>} THEN Raise(s)
         ELSE LET phone == strip(normalize_phone(s.phone))
              IN  IF ~startswith(phone, "+") THEN Raise(s)
                  ELSE IF Len(phone) < 8 THEN Raise(s)
                  ELSE Return([s EXCEPT !.phone = phone])

\* unique_together = ("email", "phone", "channel"): checked only when no
\* field of the three is NULL; pk is the row being saved (0 for a new row)
validate_unique(s, subs, pk) ==
    (s.email # None /\ s.phone # None)
        => ~ \E i \in DOMAIN subs \ {pk} :
                /\ subs[i].email = s.email
                /\ subs[i].phone = s.phone
                /\ subs[i].channel = s.channel

\* self.full_clean() (field validators, clean, validate_unique), then the write
save(s, subs, pk) ==
    LET c == clean(s)
    IN  IF s.email \notin {None, <<>>} /\ ~validate_email(s.email) THEN Raise(s)
        ELSE IF c.error THEN Raise(s)
        ELSE IF ~validate_unique(c.row, subs, pk) THEN Raise(s)
        ELSE c

-----------------------------------------------------------------------------
(* Subscribe and unsubscribe, views.py and api_views.py *)

\* .first(): the matching row of lowest id, 0 when there is none
first(S) == IF S = {} THEN 0 ELSE CHOOSE i \in S : \A j \in S : i <= j

\* Subscriber.objects.filter(<email|phone>=x, channel=c, is_active=active)
filter(subs, c, x, active) ==
    { i \in DOMAIN subs :
        /\ (IF c = CHANNEL_EMAIL THEN subs[i].email ELSE subs[i].phone) = x
        /\ subs[i].channel = c
        /\ subs[i].is_active = active }

\* the block every channel branch repeats: already subscribed, reactivate, or
\* create
subscribe_contact(subs, c, x, receive_daily, receive_special) ==
    LET existing_subscriber == first(filter(subs, c, x, TRUE))
        inactive_subscriber == first(filter(subs, c, x, FALSE))
    IN  IF existing_subscriber # 0
        THEN [subs |-> subs, outcome |-> "already"]
        ELSE IF inactive_subscriber # 0
        THEN LET r == save([subs[inactive_subscriber] EXCEPT
                               !.is_active = TRUE,
                               !.receive_daily_devotion = receive_daily,
                               !.receive_special_programs = receive_special],
                           subs, inactive_subscriber)
             IN  IF r.error THEN [subs |-> subs, outcome |-> "ValidationError"]
                 ELSE [subs |-> [subs EXCEPT ![inactive_subscriber] = r.row],
                       outcome |-> "reactivated"]
        ELSE LET r == save(NewSubscriber(c,
                               IF c = CHANNEL_EMAIL THEN x ELSE None,
                               IF c = CHANNEL_EMAIL THEN None ELSE x,
                               receive_daily, receive_special, TRUE),
                           subs, 0)
             IN  IF r.error THEN [subs |-> subs, outcome |-> "ValidationError"]
                 ELSE [subs |-> Append(subs, r.row), outcome |-> "created"]

Crashed(outcome) == outcome \in {"ValidationError", "UnboundLocalError"}

\* one turn of SubscribeView.post's loop over the selected channels
post_channel(subs, channel, email, phone, receive_daily, receive_special) ==
    IF channel = CHANNEL_EMAIL
    THEN IF email = <<>> THEN [subs |-> subs, outcome |-> "required"]
         ELSE IF ~validate_email(email) THEN [subs |-> subs, outcome |-> "invalid"]
         ELSE LET email_normalized == lower(email)
              IN  subscribe_contact(subs, CHANNEL_EMAIL, email_normalized,
                                    receive_daily, receive_special)
    ELSE IF phone = <<>> THEN [subs |-> subs, outcome |-> "required"]
         ELSE LET phone_normalized == normalize_phone(phone)
              IN  IF ~startswith(phone_normalized, "+")
                  THEN [subs |-> subs, outcome |-> "invalid"]
                  ELSE IF Len(phone_normalized) < 8
                  THEN [subs |-> subs, outcome |-> "invalid"]
                  ELSE subscribe_contact(subs, channel, phone_normalized,
                                         receive_daily, receive_special)

\* for channel in channels: ...  An uncaught exception ends the request; the
\* rows written for earlier channels stay (autocommit).
RECURSIVE post_loop(_, _, _, _, _, _, _)
post_loop(subs, channels, email, phone, receive_daily, receive_special, outcomes) ==
    IF channels = <<>> THEN [subs |-> subs, outcomes |-> outcomes]
    ELSE LET r == post_channel(subs, Head(channels), email, phone,
                               receive_daily, receive_special)
             done == Append(outcomes, [channel |-> Head(channels), outcome |-> r.outcome])
         IN  IF Crashed(r.outcome) THEN [subs |-> r.subs, outcomes |-> done]
             ELSE post_loop(r.subs, Tail(channels), email, phone,
                            receive_daily, receive_special, done)

\* SubscribeSerializer: fields are trimmed, a non-blank email is validated,
\* the channel's contact is required
SubscribeSerializer_is_valid(channel, email, phone) ==
    /\ email = <<>> \/ validate_email(email)
    /\ channel = CHANNEL_EMAIL => email # <<>>
    /\ channel \in {CHANNEL_SMS, CHANNEL_WHATSAPP} => phone # <<>>

\* SubscribeAPIView.create after validation
api_create(subs, channel, email, phone, receive_daily, receive_special) ==
    IF channel = CHANNEL_EMAIL
    THEN subscribe_contact(subs, CHANNEL_EMAIL, lower(email), receive_daily, receive_special)
    ELSE IF channel = CHANNEL_WHATSAPP
    THEN subscribe_contact(subs, CHANNEL_WHATSAPP, normalize_phone(phone),
                           receive_daily, receive_special)
    ELSE [subs |-> subs, outcome |-> "UnboundLocalError"]

StatusOf(outcome) ==
    CASE outcome \in {"created", "reactivated"} -> 201
      [] outcome \in {"already", "invalid", "required"} -> 400
      [] Crashed(outcome) -> 500

\* UnsubscribeSerializer
UnsubscribeSerializer_is_valid(email, phone) ==
    /\ email = <<>> \/ validate_email(email)
    /\ email # <<>> \/ phone # <<>>

\* subscriber.is_active = False; subscriber.save()
deactivate(subs, pk) ==
    LET r == save([subs[pk] EXCEPT !.is_active = FALSE], subs, pk)
    IN  IF r.error THEN [subs |-> subs, outcome |-> "ValidationError"]
        ELSE [subs |-> [subs EXCEPT ![pk] = r.row], outcome |-> "unsubscribed"]

NotFound(subs) == [subs |-> subs, outcome |-> "not_found"]

\* views.unsubscribe: by email on the email channel, else by phone on any channel
unsubscribe(subs, email, phone) ==
    IF email # <<>>
    THEN LET subscriber == first({ i \in DOMAIN subs :
                               subs[i].email = email /\ subs[i].channel = CHANNEL_EMAIL })
         IN  IF subscriber # 0 THEN deactivate(subs, subscriber) ELSE NotFound(subs)
    ELSE IF phone # <<>>
    THEN LET subscriber == first({ i \in DOMAIN subs : subs[i].phone = phone })
         IN  IF subscriber # 0 THEN deactivate(subs, subscriber) ELSE NotFound(subs)
    ELSE [subs |-> subs, outcome |-> "required"]

\* UnsubscribeAPIView.create after validation: by email, else by phone on the
\* whatsapp channel
api_unsubscribe(subs, email, phone) ==
    IF email # <<>>
    THEN LET subscriber == first({ i \in DOMAIN subs :
                               subs[i].email = email /\ subs[i].channel = CHANNEL_EMAIL })
         IN  IF subscriber # 0 THEN deactivate(subs, subscriber) ELSE NotFound(subs)
    ELSE LET subscriber == first({ i \in DOMAIN subs :
                               subs[i].phone = phone /\ subs[i].channel = CHANNEL_WHATSAPP })
         IN  IF subscriber # 0 THEN deactivate(subs, subscriber) ELSE NotFound(subs)

-----------------------------------------------------------------------------
(* Requests of the subscription specification *)

MaxRows == 2        \* rows the Subscriber table may grow to

EmailUpper == <<"A", "@", "x", ".", "Y">>
EmailPadded == <<" ", "a", "@", "x", ".", "y", " ">>
EmailNoDot == <<"a", "@", "x">>
EmailInputs == { <<>>, EmailUpper, EmailPadded, EmailNoDot }

PhonePlain == <<"+", "2", "3", "3", "5", "5", "5", "1">>
PhoneFormatted == <<"+", "(", "2", "3", "3", ")", " ", "5", "5", "-", "5", "1">>
PhoneNoCode == <<"2", "3", "3", "5", "5", "5", "1", "2">>
PhoneShort == <<"+", "2", "3", "3">>
PhoneTab == <<"+", "2", "3", "3", "5", "5", "5", "1", "\t", ")">>
PhoneInputs == { <<>>, PhonePlain, PhoneFormatted, PhoneNoCode, PhoneShort, PhoneTab }

\* the checked boxes of the subscribe form, in the order posted
ChannelLists ==
    { <<>>, <<CHANNEL_EMAIL>>, <<CHANNEL_SMS>>, <<CHANNEL_WHATSAPP>>,
      <<CHANNEL_SMS, CHANNEL_WHATSAPP>> }

\* (receive_daily_devotion, receive_special_programs) of a request
PrefInputs == { <<TRUE, FALSE>>, <<FALSE, TRUE>> }

\* a request fills in the contact fields its channels ask for
Filled(channels, email, phone) ==
    /\ email # <<>> => CHANNEL_EMAIL \in Range(channels)
    /\ phone # <<>> => Range(channels) \cap {CHANNEL_SMS, CHANNEL_WHATSAPP} # {}

Request(channels, email, phone, prefs) ==
    [ channels |-> channels, email |-> email, phone |-> phone,
      receive_daily_devotion |-> prefs[1], receive_special_programs |-> prefs[2] ]

\* POST /subscriptions/  (SubscribeView.post)
WebSubscribe(channels, email_in, phone_in, prefs) ==
    LET email == strip(email_in)
        phone == strip(phone_in)
        r == post_loop(subscribers, channels, email, phone, prefs[1], prefs[2], <<>>)
    IN  /\ Len(r.subs) <= MaxRows
        /\ subscribers' = r.subs
        /\ outbox' = <<>>
        /\ last' = [ op |-> "subscribe",
                     args |-> Request(channels, email_in, phone_in, prefs),
                     resp |-> [ status |-> IF \E k \in DOMAIN r.outcomes :
                                                  Crashed(r.outcomes[k].outcome)
                                           THEN 500 ELSE 302,
                                outcomes |-> r.outcomes ] ]
        /\ UNCHANGED <<runs, site_settings, bookings, now, devotions, config, notifications>>

\* POST /api/subscriptions/subscribe/  (SubscribeAPIView.create)
ApiSubscribe(channel, email_in, phone_in, prefs) ==
    LET email == strip(email_in)
        phone == strip(phone_in)
        r == IF ~SubscribeSerializer_is_valid(channel, email, phone)
             THEN [subs |-> subscribers, outcome |-> "invalid"]
             ELSE api_create(subscribers, channel, email, phone, prefs[1], prefs[2])
    IN  /\ Len(r.subs) <= MaxRows
        /\ subscribers' = r.subs
        /\ outbox' = <<>>
        /\ last' = [ op |-> "api_subscribe",
                     args |-> Request(<<channel>>, email_in, phone_in, prefs),
                     resp |-> [ status |-> StatusOf(r.outcome),
                                outcomes |-> << [channel |-> channel,
                                                 outcome |-> r.outcome] >> ] ]
        /\ UNCHANGED <<runs, site_settings, bookings, now, devotions, config, notifications>>

\* POST /subscriptions/unsubscribe/  (views.unsubscribe)
WebUnsubscribe(email_in, phone_in) ==
    LET r == unsubscribe(subscribers, strip(email_in), strip(phone_in))
    IN  /\ subscribers' = r.subs
        /\ outbox' = <<>>
        /\ last' = [ op |-> "unsubscribe",
                     args |-> [email |-> email_in, phone |-> phone_in],
                     resp |-> [ status |-> IF Crashed(r.outcome) THEN 500 ELSE 200,
                                outcome |-> r.outcome ] ]
        /\ UNCHANGED <<runs, site_settings, bookings, now, devotions, config, notifications>>

\* POST /api/subscriptions/unsubscribe/  (UnsubscribeAPIView.create)
ApiUnsubscribe(email_in, phone_in) ==
    LET email == strip(email_in)
        phone == strip(phone_in)
        r == IF ~UnsubscribeSerializer_is_valid(email, phone)
             THEN [subs |-> subscribers, outcome |-> "invalid"]
             ELSE api_unsubscribe(subscribers, email, phone)
    IN  /\ subscribers' = r.subs
        /\ outbox' = <<>>
        /\ last' = [ op |-> "api_unsubscribe",
                     args |-> [email |-> email_in, phone |-> phone_in],
                     resp |-> [ status |-> CASE r.outcome = "unsubscribed" -> 200
                                             [] r.outcome = "not_found" -> 404
                                             [] r.outcome = "invalid" -> 400
                                             [] OTHER -> 500,
                                outcome |-> r.outcome ] ]
        /\ UNCHANGED <<runs, site_settings, bookings, now, devotions, config, notifications>>

\* The subscription specification: an empty Subscriber table, requests handled
\* one at a time.
InitSub ==
    /\ NoPages
    /\ NoRuns
    /\ now = 0
    /\ devotions = {}
    /\ config = [sms |-> TRUE, whatsapp |-> TRUE]
    /\ subscribers = <<>>
    /\ notifications = [ id \in NotifIds |-> DefaultNotification ]
    /\ outbox = <<>>
    /\ last = Quiet("init")

NextSub ==
    \/ \E channels \in ChannelLists, email \in EmailInputs, phone \in PhoneInputs,
          prefs \in PrefInputs :
          Filled(channels, email, phone) /\ WebSubscribe(channels, email, phone, prefs)
    \/ \E channel \in ChannelSet, email \in EmailInputs, phone \in PhoneInputs,
          prefs \in PrefInputs :
          Filled(<<channel>>, email, phone) /\ ApiSubscribe(channel, email, phone, prefs)
    \/ \E email \in EmailInputs, phone \in PhoneInputs :
          (email = <<>> \/ phone = <<>>) /\ WebUnsubscribe(email, phone)
    \/ \E email \in EmailInputs, phone \in PhoneInputs :
          (email = <<>> \/ phone = <<>>) /\ ApiUnsubscribe(email, phone)

SpecSub == InitSub /\ [][NextSub]_vars

-----------------------------------------------------------------------------
(* Vocabulary of the properties *)

IsCommand(l) == l.op = "command"

\* the attempts of the last handler made for source src (a notification id or DAILY)
AttemptsOf(src) == { k \in DOMAIN outbox : outbox[k].src = src }

AttemptsOn(src, c) == { k \in AttemptsOf(src) : outbox[k].channel = c }

\* the subscribers a notification addresses on channel c, in the words of the
\* property: flag set, channel c, active, contact present, opted in if required
Eligible(n, c) ==
    IF ~SendToFlag(n, c) THEN {}
    ELSE { i \in DOMAIN subscribers :
             /\ subscribers[i].channel = c
             /\ subscribers[i].is_active
             /\ ContactOf(subscribers[i]) \notin {None, <<>>}
             /\ (n.only_daily_devotion_subscribers
                    => subscribers[i].receive_daily_devotion) }

SentCount(n, c) ==
    CASE c = CHANNEL_EMAIL -> n.email_sent_count
      [] c = CHANNEL_SMS -> n.sms_sent_count
      [] c = CHANNEL_WHATSAPP -> n.whatsapp_sent_count

FailedCount(n, c) ==
    CASE c = CHANNEL_EMAIL -> n.email_failed_count
      [] c = CHANNEL_SMS -> n.sms_failed_count
      [] c = CHANNEL_WHATSAPP -> n.whatsapp_failed_count

Counts(n) == <<n.email_sent_count, n.email_failed_count, n.sms_sent_count,
               n.sms_failed_count, n.whatsapp_sent_count, n.whatsapp_failed_count>>

\* the last handler was a real run of the command that sent notification id
DispatchedNow(id) ==
    /\ IsCommand(last)
    /\ ~last.args.dry_run
    /\ id \in last.resp.selected
    /\ notifications[id].status = STATUS_SENT

-----------------------------------------------------------------------------
(* C1: whatever a command invocation hands to the sender, changes, or sends  *)
(* messages for, was 'scheduled', not paused, and scheduled no later than    *)
(* now when the invocation started; paused, sent, cancelled and not-yet-due  *)
(* notifications are left alone.                                             *)
C1_OnlyDueDispatched ==
    [][ IsCommand(last') =>
          \A id \in NotifIds :
             ( \/ id \in last'.resp.selected
               \/ notifications'[id] # notifications[id]
               \/ \E k \in DOMAIN outbox' : outbox'[k].src = id )
             => /\ notifications[id].status = STATUS_SCHEDULED
                /\ ~notifications[id].is_paused
                /\ notifications[id].scheduled_date <= DateOf(now)
                /\ scheduled_datetime(notifications[id]) <= now ]_vars

\* a run that dispatched one notification while another, paused one stayed put
C1_Witness ==
    /\ IsCommand(last)
    /\ \E id \in last.resp.selected : AttemptsOf(id) # {}
    /\ \E id \in NotifIds \ last.resp.selected :
          /\ notifications[id].is_paused
          /\ scheduled_datetime(notifications[id]) <= now

(* C2: a real (not dry) run that dispatches a notification with a devotion   *)
(* leaves it 'sent' with sent_at set, whatever failed; and from then on no   *)
(* command run (nor the passing of time) touches it or sends for it again.   *)
C2_SentOnceNeverRetried ==
    [][ \A id \in NotifIds :
          /\ ( /\ IsCommand(last')
               /\ ~last'.args.dry_run
               /\ id \in last'.resp.selected
               /\ SelectDevotion(notifications[id], devotions) # NoDevotion )
             => /\ notifications'[id].status = STATUS_SENT
                /\ notifications'[id].sent_at = now
                /\ notifications'[id].sent_at # NoTime
          /\ ( /\ notifications[id].status = STATUS_SENT
               /\ last'.op \in {"command", "tick"} )
             => /\ notifications'[id] = notifications[id]
                /\ IsCommand(last') => id \notin last'.resp.selected
                /\ \A k \in DOMAIN outbox' : outbox'[k].src # id ]_vars

\* a later run finds a notification sent earlier, each of whose sends failed
C2_Witness ==
    /\ IsCommand(last)
    /\ ~last.args.dry_run
    /\ \E id \in NotifIds :
          /\ notifications[id].status = STATUS_SENT
          /\ notifications[id].sent_at # NoTime
          /\ notifications[id].sent_at < now
          /\ id \notin last.resp.selected
          /\ notifications[id].email_failed_count > 0
          /\ \A c \in ChannelSet : SentCount(notifications[id], c) = 0

C4_OneAttemptEach ==
    \A id \in NotifIds : DispatchedNow(id) =>
        \A c \in ChannelSet :
           /\ \A i \in Eligible(notifications[id], c) :
                 Cardinality({ k \in AttemptsOn(id, c) : outbox[k].sub = i }) = 1
           /\ \A k \in AttemptsOn(id, c) : outbox[k].sub \in Eligible(notifications[id], c)
           /\ SentCount(notifications[id], c) + FailedCount(notifications[id], c)
                 = Cardinality(Eligible(notifications[id], c))

\* a dispatch in which one channel's send failed and a later channel's succeeded
C4_Witness ==
    \E id \in NotifIds :
       /\ DispatchedNow(id)
       /\ \E k1, k2 \in AttemptsOf(id) :
             /\ k1 < k2
             /\ outbox[k1].result = "failed"
             /\ outbox[k2].result = "sent"

(* C5: a scheduled notification is sent on a channel only if the channel's   *)
(* flag is set, only to subscribers of that channel that are active and have *)
(* a contact, and, when only_daily_devotion_subscribers is set, opted in to  *)
(* daily devotions; a channel whose flag is off records 0 sent and 0 failed. *)
C5_RecipientsFiltered ==
    /\ \A k \in DOMAIN outbox : outbox[k].src \in NotifIds =>
          LET n == notifications[outbox[k].src]
              s == subscribers[outbox[k].sub]
              c == outbox[k].channel
          IN  /\ SendToFlag(n, c)
              /\ s.channel = c
              /\ s.is_active
              /\ ContactOf(s) \notin {None, <<>>}
              /\ outbox[k].to = ContactOf(s)
              /\ (n.only_daily_devotion_subscribers => s.receive_daily_devotion)
    /\ \A id \in NotifIds : DispatchedNow(id) =>
          \A c \in ChannelSet : ~SendToFlag(notifications[id], c) =>
              /\ SentCount(notifications[id], c) = 0
              /\ FailedCount(notifications[id], c) = 0

\* a dispatch that sent to somebody, skipped an active subscriber not opted in,
\* and left out a channel that has an active subscriber
C5_Witness ==
    \E id \in NotifIds :
       /\ DispatchedNow(id)
       /\ AttemptsOf(id) # {}
       /\ notifications[id].only_daily_devotion_subscribers
       /\ \E i \in DOMAIN subscribers :
             /\ subscribers[i].is_active
             /\ ~subscribers[i].receive_daily_devotion
             /\ SendToFlag(notifications[id], subscribers[i].channel)
       /\ \E i \in DOMAIN subscribers :
             /\ subscribers[i].is_active
             /\ subscribers[i].receive_daily_devotion
             /\ ~SendToFlag(notifications[id], subscribers[i].channel)

(* C6: the regular daily devotion send reaches, on each of the three         *)
(* channels, only subscribers that are active and opted in to daily          *)
(* devotions.                                                                *)
C6_DailyOnlyOptedIn ==
    \A k \in AttemptsOf(DAILY) : outbox[k].result = "sent" =>
       /\ subscribers[outbox[k].sub].is_active
       /\ subscribers[outbox[k].sub].receive_daily_devotion

(* C7: a dry run sends nothing, neither for due notifications nor as the     *)
(* regular daily devotion.                                                   *)
C7_DryRunSendsNothing ==
    (IsCommand(last) /\ last.args.dry_run) => outbox = <<>>

\* a dry run that had a due notification with a devotion and subscribers to
\* address, and a devotion published today
C7_Witness ==
    /\ IsCommand(last)
    /\ last.args.dry_run
    /\ DateOf(now) \in devotions
    /\ \E id \in last.resp.selected :
          /\ SelectDevotion(notifications[id], devotions) # NoDevotion
          /\ Eligible(notifications[id], CHANNEL_EMAIL) # {}
    /\ email_subscribers_daily(subscribers) # <<>>

(* C8: an invocation that dispatched a due scheduled notification does not   *)
(* also perform the regular daily devotion send: with a devotion published  *)
(* today, no subscriber is delivered both the notification and the regular  *)
(* devotion by one invocation.                                               *)
C8_ScheduledOverridesDaily ==
    \A id \in NotifIds : (DispatchedNow(id) /\ DateOf(now) \in devotions) =>
        \A k1 \in AttemptsOf(id), k2 \in AttemptsOf(DAILY) :
           ~ ( /\ outbox[k1].sub = outbox[k2].sub
               /\ outbox[k1].result = "sent"
               /\ outbox[k2].result = "sent" )

(* C9: the stored sms and whatsapp sent counts count the subscribers whose   *)
(* message the gateway accepted; a subscriber skipped because the gateway is *)
(* not configured is counted neither as sent nor as failed.                  *)
C9_SentCountsAccepted ==
    \A id \in NotifIds : DispatchedNow(id) =>
        \A c \in {CHANNEL_SMS, CHANNEL_WHATSAPP} :
           /\ SentCount(notifications[id], c)
                 = Cardinality({ k \in AttemptsOn(id, c) : outbox[k].result = "sent" })
           /\ SentCount(notifications[id], c) + FailedCount(notifications[id], c)
                 = Cardinality({ k \in AttemptsOn(id, c) : outbox[k].result # "skipped" })

-----------------------------------------------------------------------------
(* Vocabulary of the subscription properties *)

SubscribeOps == {"subscribe", "api_subscribe"}

\* the contact x of a request on channel c: the email lower-cased, the phone
\* with spaces, dashes and parentheses removed, both without the whitespace
\* around them (the form in which a record holds a contact)
RequestContact(c, args) ==
    IF c = CHANNEL_EMAIL THEN strip(lower(strip(args.email)))
    ELSE strip(normalize_phone(strip(args.phone)))

\* x is a well-formed email address / a phone number with its country code
ValidContact(c, x) ==
    IF c = CHANNEL_EMAIL THEN validate_email(x)
    ELSE startswith(x, "+") /\ Len(x) >= 8

\* the records (c, x) of a table
RecordsOf(subs, c, x, active) ==
    { i \in DOMAIN subs :
        /\ subs[i].channel = c
        /\ ContactOf(subs[i]) = x
        /\ subs[i].is_active = active }

ChannelRows(subs, c) == { i \in DOMAIN subs : subs[i].channel = c }

\* the outcome reported for the k-th channel of the last request
OutcomeOf(l, k) ==
    IF k \in DOMAIN l.resp.outcomes THEN l.resp.outcomes[k].outcome ELSE "none"

\* what a step does to the rows of channel c is one of the three things
OneOfThree(c, x, daily, special, outcome) ==
    LET act == RecordsOf(subscribers, c, x, TRUE)
        ina == RecordsOf(subscribers, c, x, FALSE)
        old == ChannelRows(subscribers, c)
        new == ChannelRows(subscribers', c)
    IN  IF act # {}
        THEN /\ outcome = "already"
             /\ new = old
             /\ \A i \in old : subscribers'[i] = subscribers[i]
        ELSE IF ina # {}
        THEN /\ outcome = "reactivated"
             /\ new = old
             /\ \E i \in ina :
                   /\ subscribers'[i] = [subscribers[i] EXCEPT
                                            !.is_active = TRUE,
                                            !.receive_daily_devotion = daily,
                                            !.receive_special_programs = special]
                   /\ \A j \in old \ {i} : subscribers'[j] = subscribers[j]
        ELSE /\ outcome = "created"
             /\ \E j \in new \ old :
                   /\ new = old \cup {j}
                   /\ subscribers'[j].channel = c
                   /\ ContactOf(subscribers'[j]) = x
                   /\ subscribers'[j].is_active
                   /\ subscribers'[j].receive_daily_devotion = daily
                   /\ subscribers'[j].receive_special_programs = special
             /\ \A i \in old : subscribers'[i] = subscribers[i]

AtMostOneRecord ==
    \A i, j \in DOMAIN subscribers :
        (i # j /\ subscribers[i].channel = subscribers[j].channel)
            => ContactOf(subscribers[i]) # ContactOf(subscribers[j])

(* C10: a subscribe request (form or API) for channel c and a valid contact  *)
(* x reports 'already subscribed' and changes nothing when an active record  *)
(* (c, x) exists, else reactivates an inactive record (c, x) and overwrites  *)
(* its two preference flags, else creates one new active record (c, x); and  *)
(* the table never holds two records with the same channel and contact.      *)
C10_SubscribeOneOfThree ==
    /\ [][ last'.op \in SubscribeOps =>
             \A k \in DOMAIN last'.args.channels :
                LET c == last'.args.channels[k]
                    x == RequestContact(c, last'.args)
                IN  ValidContact(c, x) =>
                       OneOfThree(c, x, last'.args.receive_daily_devotion,
                                  last'.args.receive_special_programs,
                                  OutcomeOf(last', k)) ]_vars
    /\ [] AtMostOneRecord

\* the request carries the contact its channel requires, well-formed enough
\* for the serializer
PassesValidation(args) ==
    LET c == args.channels[1]
    IN  IF c = CHANNEL_EMAIL THEN validate_email(strip(args.email))
        ELSE strip(args.phone) # <<>>

(* C11: a subscribe API request that passes validation ends in HTTP 201     *)
(* with an active subscriber for its channel and contact, or in HTTP 400    *)
(* because the contact is already actively subscribed; on each channel.     *)
C11_ApiSubscribe201Or400 ==
    (last.op = "api_subscribe" /\ PassesValidation(last.args)) =>
        LET c == last.args.channels[1]
            x == RequestContact(c, last.args)
        IN  \/ /\ last.resp.status = 201
               /\ RecordsOf(subscribers, c, x, TRUE) # {}
            \/ /\ last.resp.status = 400
               /\ OutcomeOf(last, 1) = "already"
               /\ RecordsOf(subscribers, c, x, TRUE) # {}

-----------------------------------------------------------------------------
(* Subscriber.save() on arbitrary records (admin add form, shell)           *)

\* field values a Subscriber instance may carry into save()
EmailFields == { None, <<>>, EmailUpper, EmailNoDot }
PhoneFields == { None, <<>>, PhoneFormatted, PhoneNoCode, PhoneShort }

\* Subscriber(channel=..., email=..., phone=...).save()
SaveSubscriber(channel, email, phone) ==
    LET record == NewSubscriber(channel, email, phone, TRUE, TRUE, TRUE)
        r == save(record, subscribers, 0)
    IN  /\ r.error \/ Len(subscribers) < MaxRows
        /\ subscribers' = IF r.error THEN subscribers ELSE Append(subscribers, r.row)
        /\ outbox' = <<>>
        /\ last' = [ op |-> "save",
                     args |-> record,
                     resp |-> [ outcome |-> IF r.error THEN "ValidationError" ELSE "saved" ] ]
        /\ UNCHANGED <<runs, site_settings, bookings, now, devotions, config, notifications>>

NextSave ==
    \E channel \in ChannelSet, email \in EmailFields, phone \in PhoneFields :
        SaveSubscriber(channel, email, phone)

SpecSave == InitSub /\ [][NextSave]_vars

\* the constraint on a record, in the words of the property
WellFormed(s) ==
    IF s.channel = CHANNEL_EMAIL
    THEN /\ s.email \notin {None, <<>>}
         /\ lower(s.email) = s.email
         /\ strip(s.email) = s.email
    ELSE /\ s.phone \notin {None, <<>>}
         /\ \A i \in DOMAIN s.phone : s.phone[i] \notin {" ", "-", "(", ")"}
         /\ Head(s.phone) = "+"
         /\ Len(s.phone) >= 8

\* the contact of the record's channel is missing, or its phone, once spaces,
\* dashes, parentheses and surrounding whitespace are removed, lacks the
\* leading '+' or the 8 characters
Unacceptable(s) ==
    IF s.channel = CHANNEL_EMAIL THEN s.email \in {None, <<>>}
    ELSE \/ s.phone \in {None, <<>>}
         \/ LET p == strip(normalize_phone(s.phone))
            IN  p = <<>> \/ Head(p) # "+" \/ Len(p) < 8

Rejected == last'.resp.outcome = "ValidationError" /\ subscribers' = subscribers

-----------------------------------------------------------------------------
(* send_whatsapp_message, whatsapp.py: splitting of long messages           *)
(*                                                                          *)
(* A message body is its length and the 0-based indexes of its newlines and *)
(* of its spaces; slicing shifts the indexes.                               *)

MAX_LENGTH == 1600
Reserve == 50

\* mutant: no room is left for the '[Part i of n]' suffix
chunk_size_NoReserve == MAX_LENGTH

chunk_size == MAX_LENGTH - Reserve

Message(len, nl, sp) == [len |-> len, nl |-> nl, sp |-> sp]

\* s[:k]
Prefix(m, k) ==
    [ len |-> IF k < m.len THEN k ELSE m.len,
      nl |-> { i \in m.nl : i < k },
      sp |-> { i \in m.sp : i < k } ]

\* s[k:]
Suffix(m, k) ==
    [ len |-> IF k < m.len THEN m.len - k ELSE 0,
      nl |-> { i - k : i \in { j \in m.nl : j >= k } },
      sp |-> { i - k : i \in { j \in m.sp : j >= k } } ]

\* s.rfind(ch), given the indexes of ch in s
rfind(indexes) ==
    IF indexes = {} THEN -1
    ELSE CHOOSE i \in indexes : \A j \in indexes : j <= i

\* while remaining: ...  (break at a newline or a space in the last 20% of
\* the chunk, else a hard break)
RECURSIVE split_chunks(_, _)
split_chunks(remaining, chunks) ==
    IF remaining.len = 0 THEN chunks
    ELSE IF remaining.len <= chunk_size THEN Append(chunks, remaining)
    ELSE LET chunk == Prefix(remaining, chunk_size)
             last_newline == rfind(chunk.nl)
             last_space == rfind(chunk.sp)
         IN  IF 10 * last_newline > 8 * chunk_size
             THEN split_chunks(Suffix(remaining, last_newline + 1),
                               Append(chunks, Prefix(remaining, last_newline)))
             ELSE IF 10 * last_space > 8 * chunk_size
             THEN split_chunks(Suffix(remaining, last_space + 1),
                               Append(chunks, Prefix(remaining, last_space)))
             ELSE split_chunks(Suffix(remaining, chunk_size), Append(chunks, chunk))

RECURSIVE NumDigits(_)
NumDigits(n) == IF n < 10 THEN 1 ELSE 1 + NumDigits(n \div 10)

\* len(f"\n\n[Part {i} of {n}]")
PartSuffixLen(i, n) == 2 + 6 + NumDigits(i) + 4 + NumDigits(n) + 1

\* the bodies handed to client.messages.create, in order
whatsapp_bodies(message) ==
    IF message.len <= MAX_LENGTH
    THEN << [part |-> 1, of |-> 1, body_len |-> message.len] >>
    ELSE LET chunks == split_chunks(message, <<>>)
         IN  [ i \in 1..Len(chunks) |->
                 [ part |-> i, of |-> Len(chunks),
                   body_len |-> IF Len(chunks) > 1
                                THEN chunks[i].len + PartSuffixLen(i, Len(chunks))
                                ELSE chunks[i].len ] ]

RECURSIVE lstrip_chars(_, _)
lstrip_chars(s, chars) ==
    IF s # <<>> /\ Head(s) \in chars THEN lstrip_chars(Tail(s), chars) ELSE s

\* the 'whatsapp:+...' address
whatsapp_to(phone_in) ==
    LET phone == strip(phone_in)
    IN  <<"whatsapp:">> \o (IF startswith(phone, "+") THEN phone
                            ELSE <<"+">> \o lstrip_chars(phone, {" ", "+", "0"}))

\* send_whatsapp_message(phone, message); the gateway raises at call number
\* fail_at (0: it accepts every call), which ends the function
SendWhatsApp(phone, message, fail_at) ==
    LET bodies == whatsapp_bodies(message)
        made == IF ~config.whatsapp THEN 0
                ELSE IF fail_at \in 1..Len(bodies) THEN fail_at ELSE Len(bodies)
    IN  /\ outbox' = [ i \in 1..made |->
                         [ src |-> "whatsapp", to |-> whatsapp_to(phone),
                           part |-> bodies[i].part, of |-> bodies[i].of,
                           body_len |-> bodies[i].body_len,
                           result |-> IF i = fail_at THEN "failed" ELSE "sent" ] ]
        /\ last' = [ op |-> "whatsapp",
                     args |-> [phone |-> phone, message |-> message],
                     resp |-> IF ~config.whatsapp THEN "None"
                              ELSE IF fail_at \in 1..Len(bodies) THEN "Exception"
                              ELSE "sid" ]
        /\ UNCHANGED <<runs, site_settings, bookings, now, devotions, config, subscribers, notifications>>

MaxChunks == 3      \* messages reach MaxChunks full chunks and one character

MessageLengths ==
    {1, MAX_LENGTH, MAX_LENGTH + 1}
        \cup { k * chunk_size + d : k \in 1..MaxChunks, d \in {0, 1} }

\* indexes around the 80% mark and the end of the first chunk
NewlineSpots == { (8 * chunk_size) \div 10, (8 * chunk_size) \div 10 + 1 }
SpaceSpots == { (8 * chunk_size) \div 10 + 2, chunk_size - 1 }

MessagesOfLength(len) ==
    { Message(len, nl, sp) : nl \in SUBSET { i \in NewlineSpots : i < len },
                             sp \in SUBSET { i \in SpaceSpots : i < len } }

Messages == UNION { MessagesOfLength(len) : len \in MessageLengths }

InitWhatsApp ==
    /\ NoPages
    /\ NoRuns
    /\ now = 0
    /\ devotions = {}
    /\ config \in [sms : {TRUE}, whatsapp : BOOLEAN]
    /\ subscribers = <<>>
    /\ notifications = [ id \in NotifIds |-> DefaultNotification ]
    /\ outbox = <<>>
    /\ last = Quiet("init")

NextWhatsApp ==
    \E phone \in {PhonePlain, PhoneNoCode}, message \in Messages, fail_at \in {0, 2} :
        SendWhatsApp(phone, message, fail_at)

SpecWhatsApp == InitWhatsApp /\ [][NextWhatsApp]_vars

\* the parts the gateway accepted
PartsSent == { k \in DOMAIN outbox : outbox[k].result = "sent" }

(* C13: with Twilio configured, a message of at most 1600 characters goes    *)
(* out as a single part; a longer one is split into two or more parts,       *)
(* handed to the gateway in order, and the body of every part sent, with     *)
(* its '[Part i of n]' suffix, has at most 1600 characters.                  *)
C13_WhatsAppPartsFit ==
    (last.op = "whatsapp" /\ config.whatsapp) =>
        /\ last.args.message.len <= 1600 =>
              /\ Len(outbox) = 1
              /\ outbox[1].of = 1
              /\ outbox[1].body_len = last.args.message.len
        /\ last.args.message.len > 1600 =>
              /\ \A k \in DOMAIN outbox : outbox[k].of >= 2 /\ outbox[k].part = k
              /\ last.resp = "sid" => Len(outbox) = outbox[1].of
        /\ \A k \in PartsSent : outbox[k].body_len <= 1600

\* a message split at a newline into three or more parts, the first shorter
\* than a full chunk, each accepted
C13_Witness ==
    /\ last.op = "whatsapp"
    /\ last.resp = "sid"
    /\ Len(outbox) >= 3
    /\ outbox[1].body_len < chunk_size
    /\ \E k \in PartsSent : outbox[k].body_len > chunk_size

-----------------------------------------------------------------------------
(* SiteSettings, pages/models.py *)

MaxPk == 3          \* primary keys an instance may carry: 0 (None), 1..MaxPk

Pks == 0..MaxPk
ZoomLinks == {"", "https://zoom/a", "https://zoom/b", "https://zoom/c"}

\* Model.save(): UPDATE the row of this pk, INSERT it when there is none;
\* with force_insert, INSERT or IntegrityError
base_save(rows, pk, row, force_insert) ==
    IF force_insert /\ pk \in DOMAIN rows THEN [error |-> TRUE, rows |-> rows]
    ELSE [ error |-> FALSE,
           rows |-> [ k \in DOMAIN rows \cup {pk} |-> IF k = pk THEN row ELSE rows[k] ] ]

\* mutant: the instance keeps its own primary key
SiteSettings_save_KeepsPk(rows, pk, zoom_link, force_insert) ==
    base_save(rows, IF pk = 0 THEN MaxPk + 1 ELSE pk, [zoom_link |-> zoom_link],
              force_insert)

\* SiteSettings.save: self.pk = 1; super().save(*args, **kwargs)
SiteSettings_save(rows, pk, zoom_link, force_insert) ==
    base_save(rows, 1, [zoom_link |-> zoom_link], force_insert)

\* SiteSettings.delete: self.zoom_link = ''; self.save()
SiteSettings_delete(rows, pk, zoom_link) == SiteSettings_save(rows, pk, "", FALSE)

PagesStep(op, args, r) ==
    /\ site_settings' = r.rows
    /\ outbox' = <<>>
    /\ last' = [ op |-> op, args |-> args,
                 resp |-> IF r.error THEN "IntegrityError" ELSE "ok" ]
    /\ UNCHANGED <<runs, now, devotions, config, subscribers, notifications, bookings>>

\* instance.save(), SiteSettings.objects.create(...) when force_insert
SaveSiteSettings(pk, zoom_link, force_insert) ==
    PagesStep("save", [pk |-> pk, zoom_link |-> zoom_link, force_insert |-> force_insert],
              SiteSettings_save(site_settings, pk, zoom_link, force_insert))

\* instance.delete()
DeleteSiteSettings(pk, zoom_link) ==
    PagesStep("delete", [pk |-> pk, zoom_link |-> zoom_link],
              SiteSettings_delete(site_settings, pk, zoom_link))

\* SiteSettings.objects.get_or_create(pk=1)
GetOrCreateSiteSettings ==
    PagesStep("get_or_create", [pk |-> 1],
              IF 1 \in DOMAIN site_settings THEN [error |-> FALSE, rows |-> site_settings]
              ELSE SiteSettings_save(site_settings, 1, "", TRUE))

InitSettings == InitSub

NextSettings ==
    \/ \E pk \in Pks, zoom_link \in ZoomLinks, force_insert \in BOOLEAN :
          SaveSiteSettings(pk, zoom_link, force_insert)
    \/ \E pk \in Pks, zoom_link \in ZoomLinks : DeleteSiteSettings(pk, zoom_link)
    \/ GetOrCreateSiteSettings

SpecSettings == InitSettings /\ [][NextSettings]_vars

(* C14: whatever save() and delete() calls are made on SiteSettings          *)
(* instances, the table holds at most one row and its primary key is 1;     *)
(* delete() removes no row: it leaves row 1 with an empty zoom_link.         *)
C14_SiteSettingsSingleton ==
    /\ [] (DOMAIN site_settings \subseteq {1})
    /\ [][ /\ DOMAIN site_settings \subseteq DOMAIN site_settings'
           /\ last'.op = "delete" =>
                 /\ 1 \in DOMAIN site_settings'
                 /\ site_settings'[1].zoom_link = "" ]_vars

\* delete() was called on an instance that had another key and a link, while
\* the row existed
C14_Witness ==
    /\ last.op = "delete"
    /\ last.args.pk > 1
    /\ last.args.zoom_link # ""
    /\ DOMAIN site_settings = {1}
    /\ site_settings[1].zoom_link = ""

-----------------------------------------------------------------------------
(* The notification pages of the management site: admin_views.py            *)
(* NotificationPauseView, NotificationResumeView, NotificationSendNowView.  *)

\* NotificationSendNowView.post: notification.devotion, else today's
\* published Devotion, else the one of the scheduled date
SendNowDevotion(n, devs, t) ==
    IF n.devotion # NoDevotion THEN n.devotion
    ELSE IF DateOf(t) \in devs THEN DateOf(t)
    ELSE IF n.scheduled_date \in devs THEN n.scheduled_date
    ELSE NoDevotion

\* NotificationSendNowView.post.  A notification already 'sent' gets a
\* warning; one without a devotion gets an error message and stays as it is;
\* otherwise the view builds the messages, and the call of
\* command._build_devotion_whatsapp, a method Command does not define, raises
\* AttributeError before any recipient is selected or any message is sent.
send_now(n, devs, t) ==
    IF n.status = STATUS_SENT
    THEN [n |-> n, log |-> <<>>, outcome |-> "already sent"]
    ELSE IF SendNowDevotion(n, devs, t) = NoDevotion
    THEN [n |-> n, log |-> <<>>, outcome |-> "no devotion"]
    ELSE [n |-> n, log |-> <<>>, outcome |-> "AttributeError"]

AdminStep(op, id, outcome) == [op |-> op, args |-> [id |-> id], resp |-> [outcome |-> outcome]]

\* POST manage/notifications/<pk>/pause/
Pause(id) ==
    /\ notifications' = [notifications EXCEPT ![id] = pause(@)]
    /\ outbox' = <<>>
    /\ last' = AdminStep("pause", id, "paused")
    /\ UNCHANGED <<runs, site_settings, bookings, now, devotions, config, subscribers>>

\* the notes of a notification hold at most this many skip marks
MaxSkips == 1

\* POST manage/notifications/<pk>/resume/
Resume(id) ==
    /\ Len(notifications[id].notes) <= MaxSkips
    /\ notifications' = [notifications EXCEPT ![id] = resume(@)]
    /\ outbox' = <<>>
    /\ last' = AdminStep("resume", id, "resumed")
    /\ UNCHANGED <<runs, site_settings, bookings, now, devotions, config, subscribers>>

\* POST manage/notifications/<pk>/send-now/
SendNow(id) ==
    LET r == send_now(notifications[id], devotions, now)
    IN  /\ notifications' = [notifications EXCEPT ![id] = r.n]
        /\ outbox' = r.log
        /\ last' = AdminStep("send_now", id, r.outcome)
        /\ UNCHANGED <<runs, site_settings, bookings, now, devotions, config, subscribers>>

\* the life-cycle family of initial states, with the staff pages at work
InitAdmin ==
    /\ InitLifecycle
    /\ NoPages
    /\ NoRuns
    /\ outbox = <<>>
    /\ last = Quiet("init")

NextAdmin ==
    \/ \E dry_run \in BOOLEAN, force \in BOOLEAN : RunCommand(dry_run, force)
    \/ Tick
    \/ \E id \in NotifIds : Pause(id)
    \/ \E id \in NotifIds : Resume(id)
    \/ \E id \in NotifIds : SendNow(id)

SpecAdmin == InitAdmin /\ [][NextAdmin]_vars

\* the recipients of a list of attempts
Addressed(log) == { <<log[k].channel, log[k].sub>> : k \in DOMAIN log }

(* C15: send-now on a notification not yet sent does what the command's      *)
(* dispatch of that notification would do on the same database state: the   *)
(* same devotion, the same recipients, the same final status and counts (the *)
(* gateway accepting every message).                                         *)
C15_SendNowAsCommand ==
    [][ \A id \in NotifIds :
          ( /\ last'.op = "send_now"
            /\ last'.args.id = id
            /\ notifications[id].status # STATUS_SENT )
          => LET n == notifications[id]
                 c == send_scheduled_notification(id, n, subscribers, devotions, config,
                                                  {id} \X DOMAIN subscribers, FALSE, now)
             IN  /\ SendNowDevotion(n, devotions, now) = SelectDevotion(n, devotions)
                 /\ Addressed(outbox') = Addressed(c.log)
                 /\ notifications'[id].status = c.n.status
                 /\ Counts(notifications'[id]) = Counts(c.n) ]_vars

(* C16: when a real (not dry) run of the command has completed, every        *)
(* notification that was 'scheduled', not paused and due (scheduled date and *)
(* time not after now) when it started is 'sent' or 'cancelled'; none of     *)
(* them is left 'scheduled'.                                                 *)
C16_DueAllSettled ==
    [][ ( IsCommand(last') /\ ~last'.args.dry_run )
        => \A id \in NotifIds :
             ( /\ notifications[id].status = STATUS_SCHEDULED
               /\ ~notifications[id].is_paused
               /\ scheduled_datetime(notifications[id]) <= now )
             => /\ notifications'[id].status \in {STATUS_SENT, STATUS_CANCELLED}
                /\ notifications'[id].status # STATUS_SCHEDULED ]_vars

\* a real run that took two due notifications, sent one and cancelled the other
C16_Witness ==
    /\ IsCommand(last)
    /\ ~last.args.dry_run
    /\ \E a \in last.resp.selected, b \in last.resp.selected :
          /\ notifications[a].status = STATUS_SENT
          /\ notifications[a].sent_at = now
          /\ notifications[b].status = STATUS_CANCELLED
    /\ \A id \in NotifIds : notifications[id].status # STATUS_SCHEDULED

(* C17: once the web unsubscribe form, given a phone number p, has reported  *)
(* success, no active Subscriber row holds phone p on any channel, and so    *)
(* neither the daily send nor a scheduled notification has p among its SMS   *)
(* or WhatsApp recipients.                                                   *)
C17_UnsubscribedPhoneSilent ==
    [][ ( /\ last'.op = "unsubscribe"
          /\ strip(last'.args.email) = <<>>
          /\ last'.resp.outcome = "unsubscribed" )
        => LET p == strip(last'.args.phone)
           IN  /\ \A i \in DOMAIN subscribers' :
                     subscribers'[i].phone = p => ~subscribers'[i].is_active
               /\ \A c \in {CHANNEL_SMS, CHANNEL_WHATSAPP} :
                     /\ \A i \in Range(DailyRecipients(subscribers', c)) :
                           subscribers'[i].phone # p
                     /\ \A id \in NotifIds :
                           \A i \in Range(ScheduledRecipients(notifications'[id],
                                                              subscribers', c)) :
                              subscribers'[i].phone # p ]_vars

-----------------------------------------------------------------------------
(* Counseling bookings: pages/models.py CounselingBooking, the approve and  *)
(* reject views of the management site (admin_views.py), the bulk actions   *)
(* of CounselingBookingAdmin (admin.py) and pages/notifications.py.         *)

BOOKING_PENDING == "pending"
BOOKING_APPROVED == "approved"
BOOKING_REJECTED == "rejected"
BOOKING_COMPLETED == "completed"
BOOKING_CANCELLED == "cancelled"
BOOKING_STATUS_CHOICES ==
    {BOOKING_PENDING, BOOKING_APPROVED, BOOKING_REJECTED, BOOKING_COMPLETED,
     BOOKING_CANCELLED}

NoDate == -1        \* a null DateField

NewBooking(email, status, approved_date, approved_time) ==
    [ status |-> status, email |-> email,
      preferred_date |-> 0, preferred_time |-> 0,
      approved_date |-> approved_date, approved_time |-> approved_time,
      email_sent |-> FALSE, sms_sent |-> FALSE ]

\* mutant: the approved date and time are not filled in
approve_booking_NoDefaults(b) == [b EXCEPT !.status = BOOKING_APPROVED]

\* booking.status = STATUS_APPROVED; approved_date / approved_time default to
\* the preferred ones
approve_booking(b) ==
    [b EXCEPT !.status = BOOKING_APPROVED,
              !.approved_date = IF @ = NoDate THEN b.preferred_date ELSE @,
              !.approved_time = IF @ = NoTime THEN b.preferred_time ELSE @]

\* send_booking_approval_email: send_mail in try/except; the handler prints
\* the message when settings.DEBUG and re-raises otherwise
send_booking_approval_email(cfg, ok) ==
    IF ok THEN "sent"
    ELSE IF cfg.debug THEN "swallowed" ELSE "failed"

\* send_booking_approval_sms: returns without a request when FASTR_API_KEY is
\* empty; otherwise returns when the gateway accepted and raises when not
send_booking_approval_sms(cfg, ok) ==
    IF ~cfg.sms THEN "skipped"
    ELSE IF ok THEN "sent" ELSE "failed"

\* send_booking_approval_admin_notification: send_mail in try/except; the
\* handler logs the error and returns
send_booking_approval_admin_notification(ok) ==
    IF ok THEN "sent" ELSE "swallowed"

BookingAttempt(pk, c, r) == [src |-> "booking", channel |-> c, sub |-> pk, result |-> r]

\* send_booking_approval_notifications(booking); ok is the set of gateways
\* that accept their message
send_booking_approval_notifications(pk, b, cfg, ok) ==
    IF b.approved_date = NoDate \/ b.approved_time = NoTime
    THEN [ raised |-> TRUE, booking |-> b, log |-> <<>>,
           result |-> [success |-> FALSE, email_sent |-> FALSE, sms_sent |-> FALSE,
                       admin_notification_sent |-> FALSE] ]
    ELSE LET e == send_booking_approval_email(cfg, "email" \in ok)
             m == send_booking_approval_sms(cfg, "sms" \in ok)
             a == send_booking_approval_admin_notification("admin" \in ok)
             email_sent == b.email # None /\ ~Raised(e)
             sms_sent == ~Raised(m)
             success == ~(b.email # None /\ Raised(e)) /\ ~Raised(m)
         IN  [ raised |-> FALSE,
               booking |-> [b EXCEPT !.email_sent = email_sent, !.sms_sent = sms_sent],
               log |-> (IF b.email # None THEN <<BookingAttempt(pk, "email", e)>> ELSE <<>>)
                       \o <<BookingAttempt(pk, "sms", m), BookingAttempt(pk, "admin", a)>>,
               result |-> [success |-> success, email_sent |-> email_sent,
                           sms_sent |-> sms_sent, admin_notification_sent |-> TRUE] ]

NoResult == [success |-> FALSE, email_sent |-> FALSE, sms_sent |-> FALSE,
             admin_notification_sent |-> FALSE]

BookingStep(op, pks, outcome, result) ==
    [op |-> op, args |-> [pks |-> pks], resp |-> [outcome |-> outcome, result |-> result]]

\* CounselingBookingApproveView.post.  (create_google_calendar_event runs in
\* try/except and stores nothing.)
ApproveBooking(pk, ok) ==
    IF bookings[pk].status # BOOKING_PENDING
    THEN /\ bookings' = bookings
         /\ outbox' = <<>>
         /\ last' = BookingStep("approve", {pk}, "not pending", NoResult)
         /\ UNCHANGED <<runs, site_settings, now, devotions, config, subscribers, notifications>>
    ELSE LET r == send_booking_approval_notifications(pk, approve_booking(bookings[pk]),
                                                      config, ok)
         IN  /\ bookings' = [bookings EXCEPT ![pk] = r.booking]
             /\ outbox' = r.log
             /\ last' = BookingStep("approve", {pk},
                                    IF r.raised THEN "ValueError" ELSE "approved", r.result)
             /\ UNCHANGED <<runs, site_settings, now, devotions, config, subscribers, notifications>>

\* CounselingBookingRejectView.post
RejectBooking(pk) ==
    /\ bookings' = IF bookings[pk].status # BOOKING_PENDING THEN bookings
                   ELSE [bookings EXCEPT ![pk].status = BOOKING_REJECTED]
    /\ outbox' = <<>>
    /\ last' = BookingStep("reject", {pk},
                           IF bookings[pk].status # BOOKING_PENDING THEN "not pending"
                           ELSE "rejected", NoResult)
    /\ UNCHANGED <<runs, site_settings, now, devotions, config, subscribers, notifications>>

\* CounselingBookingAdmin.approve_bookings on the selected rows
AdminApproveBookings(queryset) ==
    /\ bookings' = [ pk \in DOMAIN bookings |->
                       IF pk \in queryset /\ bookings[pk].status = BOOKING_PENDING
                       THEN approve_booking(bookings[pk]) ELSE bookings[pk] ]
    /\ outbox' = <<>>
    /\ last' = BookingStep("approve_bookings", queryset, "done", NoResult)
    /\ UNCHANGED <<runs, site_settings, now, devotions, config, subscribers, notifications>>

\* CounselingBookingAdmin.reject_bookings on the selected rows
AdminRejectBookings(queryset) ==
    /\ bookings' = [ pk \in DOMAIN bookings |->
                       IF pk \in queryset /\ bookings[pk].status = BOOKING_PENDING
                       THEN [bookings[pk] EXCEPT !.status = BOOKING_REJECTED]
                       ELSE bookings[pk] ]
    /\ outbox' = <<>>
    /\ last' = BookingStep("reject_bookings", queryset, "done", NoResult)
    /\ UNCHANGED <<runs, site_settings, now, devotions, config, subscribers, notifications>>

MaxBookings == 2    \* rows of the CounselingBooking table

BookingEmail == <<"c", "@", "x", ".", "y">>

\* Row 1 is as the booking form and the admin change form can leave it: any
\* status, with or without an email, approved date and time set or null.
\* The further rows are pending or approved requests with an email.
InitBookings ==
    /\ site_settings = <<>>
    /\ NoRuns
    /\ now = 0
    /\ devotions = {}
    /\ config \in [sms : BOOLEAN, whatsapp : {TRUE}, debug : BOOLEAN]
    /\ subscribers = <<>>
    /\ notifications = [ id \in NotifIds |-> DefaultNotification ]
    /\ \E st \in BOOKING_STATUS_CHOICES, em \in {None, BookingEmail},
          d \in {NoDate, 1}, tm \in {NoTime, 1},
          rest \in [2..MaxBookings -> {BOOKING_PENDING, BOOKING_APPROVED}] :
          bookings = [ pk \in 1..MaxBookings |->
              IF pk = 1 THEN NewBooking(em, st, d, tm)
              ELSE IF rest[pk] = BOOKING_PENDING
              THEN NewBooking(BookingEmail, BOOKING_PENDING, NoDate, NoTime)
              ELSE NewBooking(BookingEmail, BOOKING_APPROVED, 0, 0) ]
    /\ outbox = <<>>
    /\ last = Quiet("init")

NextBookings ==
    \/ \E pk \in 1..MaxBookings, ok \in SUBSET {"email", "sms", "admin"} :
          ApproveBooking(pk, ok)
    \/ \E pk \in 1..MaxBookings : RejectBooking(pk)
    \/ \E queryset \in SUBSET (1..MaxBookings) : AdminApproveBookings(queryset)
    \/ \E queryset \in SUBSET (1..MaxBookings) : AdminRejectBookings(queryset)

SpecBookings == InitBookings /\ [][NextBookings]_vars

BookingOps == {"approve", "reject", "approve_bookings", "reject_bookings"}

(* C18: the approve and reject views and the two admin bulk actions move a   *)
(* booking to 'approved' or 'rejected' only if it was 'pending'; a booking   *)
(* in any other status that they are asked to approve or reject stays as it  *)
(* was, and the request sends no notification for it; and a booking they     *)
(* approve ends with approved_date and approved_time set, the preferred date *)
(* and time where none was given.                                            *)
C18_ApproveRejectFromPending ==
    [][ last'.op \in BookingOps =>
          \A pk \in DOMAIN bookings :
             /\ ( /\ bookings'[pk].status \in {BOOKING_APPROVED, BOOKING_REJECTED}
                  /\ bookings'[pk].status # bookings[pk].status )
                => bookings[pk].status = BOOKING_PENDING
             /\ ( pk \in last'.args.pks /\ bookings[pk].status # BOOKING_PENDING )
                => /\ bookings'[pk] = bookings[pk]
                   /\ \A k \in DOMAIN outbox' : outbox'[k].sub # pk
             /\ ( /\ bookings'[pk].status = BOOKING_APPROVED
                  /\ bookings[pk].status # BOOKING_APPROVED )
                => /\ bookings'[pk].approved_date # NoDate
                   /\ bookings'[pk].approved_time # NoTime
                   /\ bookings'[pk].approved_date =
                         (IF bookings[pk].approved_date = NoDate
                          THEN bookings[pk].preferred_date ELSE bookings[pk].approved_date)
                   /\ bookings'[pk].approved_time =
                         (IF bookings[pk].approved_time = NoTime
                          THEN bookings[pk].preferred_time ELSE bookings[pk].approved_time)
      ]_vars

\* the bulk action has approved a pending booking, giving it the preferred
\* date and time, and has left a completed booking of its selection alone
C18_Witness ==
    /\ last.op = "approve_bookings"
    /\ last.args.pks = 1..MaxBookings
    /\ bookings[1].status = BOOKING_COMPLETED
    /\ bookings[1].approved_date = NoDate
    /\ bookings[2].status = BOOKING_APPROVED
    /\ bookings[2].approved_date = bookings[2].preferred_date
    /\ bookings[2].approved_time = bookings[2].preferred_time
    /\ ~bookings[2].email_sent

(* C19: after send_booking_approval_notifications has returned, sms_sent is  *)
(* set only if the SMS gateway accepted an SMS, email_sent only if the       *)
(* approval email was sent, and 'success' is reported only if every          *)
(* notification attempted (user email, user SMS, admin email) went out.      *)
C19_FlagsMarkSuccess ==
    [][ ( last'.op = "approve" /\ last'.resp.outcome = "approved" )
        => \A pk \in last'.args.pks :
             LET Went(c) == \E k \in DOMAIN outbox' :
                               /\ outbox'[k].channel = c
                               /\ outbox'[k].sub = pk
                               /\ outbox'[k].result = "sent"
             IN  /\ bookings'[pk].sms_sent => Went("sms")
                 /\ bookings'[pk].email_sent => Went("email")
                 /\ bookings'[pk].sms_sent = last'.resp.result.sms_sent
                 /\ bookings'[pk].email_sent = last'.resp.result.email_sent
                 /\ last'.resp.result.success
                    => \A k \in DOMAIN outbox' : outbox'[k].result = "sent" ]_vars

(* C20: with command runs and the staff actions pause, resume and send-now   *)
(* taken one at a time in any order, a notification is dispatched at most    *)
(* once: once it has been marked 'sent' (sent_at is set), no later step      *)
(* sends messages for it or dispatches it again.                             *)
C20_DispatchedAtMostOnce ==
    [][ \A id \in NotifIds :
          notifications[id].sent_at # NoTime
          => /\ ~DispatchedNow(id)'
             /\ \A k \in DOMAIN outbox' : outbox'[k].src # id ]_vars

-----------------------------------------------------------------------------
(* Overlapping invocations of the command.  An invocation is a process of   *)
(* its own; nothing in the code locks a row or opens a transaction, so the  *)
(* steps of two invocations interleave between database statements: the     *)
(* query that loads the due notifications, then, for each loaded object in  *)
(* turn, _send_scheduled_notification, then the daily send of handle.       *)

MaxRuns == 2        \* invocations under way at the same time

\* the notification objects the loop of _process_scheduled_notifications
\* holds, in queryset order, each with the field values read by the query
LoadDue(notifs, t) ==
    LET order == Ordered(notifs, notifications_to_send(notifs, t))
    IN  [ k \in 1..Len(order) |-> [id |-> order[k], row |-> notifs[order[k]]] ]

NewRun(dry_run, force, todo) == [dry_run |-> dry_run, force |-> force, todo |-> todo]

Without(seq, r) ==
    [ k \in 1..(Len(seq) - 1) |-> IF k < r THEN seq[k] ELSE seq[k + 1] ]

\* the gateway calls _send_scheduled_notification makes for one notification
ScheduledCalls(id, n, subs, devs, cfg, dry_run) ==
    { <<src, i>> \in {id} \X DOMAIN subs :
        /\ ~dry_run
        /\ SelectDevotion(n, devs) # NoDevotion
        /\ \E c \in ChannelSet :
              /\ Configured(cfg, c)
              /\ i \in Range(ScheduledRecipients(n, subs, c)) }

\* the gateway calls of the daily send
DailyCalls(subs, devs, cfg, dry_run, force, t) ==
    { <<src, i>> \in {DAILY} \X DOMAIN subs :
        /\ daily_send_runs(subs, devs, dry_run, force, t)
        /\ \E c \in ChannelSet :
              /\ Configured(cfg, c)
              /\ i \in Range(DailyRecipients(subs, c)) }

\* an invocation starts: handle calls _process_scheduled_notifications, which
\* evaluates the queryset and keeps the notifications that are due
StartRun(dry_run, force) ==
    /\ Len(runs) < MaxRuns
    /\ runs' = Append(runs, NewRun(dry_run, force, LoadDue(notifications, now)))
    /\ outbox' = <<>>
    /\ last' = [ op |-> "start",
                 args |-> [dry_run |-> dry_run],
                 resp |-> [selected |-> notifications_to_send(notifications, now)] ]
    /\ UNCHANGED <<site_settings, bookings, now, devotions, config, subscribers,
                   notifications>>

\* the loop body: _send_scheduled_notification on the next loaded object.
\* The object carries the fields as loaded; save() writes all of them.
DispatchNext(r) ==
    /\ runs[r].todo # <<>>
    /\ LET h == Head(runs[r].todo)
       IN  \E ok \in SUBSET ScheduledCalls(h.id, h.row, subscribers, devotions, config,
                                           runs[r].dry_run) :
             LET res == send_scheduled_notification(h.id, h.row, subscribers, devotions,
                                                    config, ok, runs[r].dry_run, now)
             IN  /\ notifications' = IF res.n = h.row THEN notifications
                                     ELSE [notifications EXCEPT ![h.id] = res.n]
                 /\ outbox' = res.log
                 /\ last' = [ op |-> "dispatch",
                              args |-> [dry_run |-> runs[r].dry_run, id |-> h.id],
                              resp |-> [status |-> res.n.status] ]
    /\ runs' = [runs EXCEPT ![r].todo = Tail(@)]
    /\ UNCHANGED <<site_settings, bookings, now, devotions, config, subscribers>>

\* the rest of handle: the daily send, after which the invocation ends
FinishRun(r) ==
    /\ runs[r].todo = <<>>
    /\ \E ok \in SUBSET DailyCalls(subscribers, devotions, config, runs[r].dry_run,
                                   runs[r].force, now) :
          outbox' = daily_send(subscribers, devotions, config, ok, runs[r].dry_run,
                               runs[r].force, now)
    /\ last' = [ op |-> "finish",
                 args |-> [dry_run |-> runs[r].dry_run],
                 resp |-> [daily |-> daily_send_runs(subscribers, devotions,
                                                     runs[r].dry_run, runs[r].force, now)] ]
    /\ runs' = Without(runs, r)
    /\ UNCHANGED <<site_settings, bookings, now, devotions, config, subscribers,
                   notifications>>

InitOverlap == InitAdmin

NextOverlap ==
    \/ \E dry_run \in BOOLEAN, force \in BOOLEAN : StartRun(dry_run, force)
    \/ \E r \in DOMAIN runs : DispatchNext(r)
    \/ \E r \in DOMAIN runs : FinishRun(r)
    \/ \E id \in NotifIds : SendNow(id)
    \/ Tick

SpecOverlap == InitOverlap /\ [][NextOverlap]_vars

\* the step just taken was a real dispatch of notification id by an invocation
DispatchedByRun(id) ==
    /\ last.op = "dispatch"
    /\ last.args.id = id
    /\ ~last.args.dry_run
    /\ notifications[id].status = STATUS_SENT

(* C21: when invocations of the command overlap each other or a send-now of  *)
(* the same notification, a notification is dispatched at most once: one    *)
(* that has been dispatched (sent_at is set) is not dispatched again, and no *)
(* further message is sent for it.                                           *)
C21_OverlapDispatchesOnce ==
    [][ \A id \in NotifIds :
          notifications[id].sent_at # NoTime
          => /\ ~DispatchedByRun(id)'
             /\ \A k \in DOMAIN outbox' : outbox'[k].src # id ]_vars

====
